---- MODULE Spec2Model ----
(***************************************************************************)
(* Hybrid retrieval and reranking engine of legal-qa-system               *)
(* (src/retriever_custom.py).                                              *)
(*                                                                         *)
(* Numbers.  The code computes with floats; the model computes with exact *)
(* rationals written as integers over a stated unit:                       *)
(*   - alpha is in hundredths (0.30 is 30, 1.0 is 100);                    *)
(*   - a cosine distance and a dense score are in halves (ONE is 1.0);     *)
(*   - a raw lexical score is in units of 1e-8, so the literal 1e-8 of     *)
(*     line 175 is EPS = 1 and a normalised score r / (max + 1e-8) is the  *)
(*     fraction r / (max + EPS);                                           *)
(*   - the fused scores of one call of retrieve_hybrid share the           *)
(*     denominator 100 * ONE * (max + EPS) and are kept as numerators.     *)
(* BM25 raw scores are taken non-negative (term-frequency saturation times *)
(* a floored inverse document frequency).                                  *)
(***************************************************************************)
EXTENDS Integers, Sequences, FiniteSets, TLC

VARIABLES
    chunks_cache,   \* the corpus snapshot loaded at start (line 120)
    bm25_docs,      \* number of documents the loaded bm25_index scores (lines 124-130)
    pc,             \* where the caller is: "idle", in a call ("hybrid"), or back from one
    alpha,          \* fusion weight handed to retrieve_hybrid, in hundredths
    pool_k,         \* k handed to retrieve_hybrid
    h,              \* the frame of retrieve_hybrid: its locals and what it returned or raised
    rr,             \* the frame of rerank: its argument, the oracle's scores, its result
    query,          \* tune_alpha's argument (specification SpecAlpha)
    alpha_out,      \* tune_alpha's result (specification SpecAlpha)
    norm_in,        \* raw lexical scores handed to the normalisation (specification SpecNorm)
    norm_out,       \* the normalised scores (specification SpecNorm)
    sources_in,     \* _dedupe_sources' argument (specification SpecDedupe)
    sources_out,    \* _dedupe_sources' result (specification SpecDedupe)
    messages,       \* st.session_state.messages of the chat page (specification SpecApp)
    running_rag,    \* st.session_state.running_rag (specification SpecApp)
    chat_started,   \* st.session_state.chat_started (specification SpecApp)
    g,              \* the frame of the last generate_answer call (specification SpecApp)
    script,         \* where the run of the chat page script stands (specification SpecApp)
    store,          \* the fragments the vector store holds (specification SpecStartup)
    index_file,     \* bm25_index.pkl: no index (absent) or one (specification SpecStartup)
    starts,         \* what each process start saw and did (specification SpecStartup)
    ret,            \* the frame of retrieve: its arguments and what it returned or raised
    sw,             \* the frame of sliding_windows_by_tokens (specification SpecWindows)
    items,          \* the leaf records process_one has emitted (specification SpecChunk)
    fmt,            \* the formatting of retrieve: top results, context, sources (SpecFormat)
    qs              \* the frames of two concurrent queries (specification SpecConcurrent)

dedupeVars == <<sources_in, sources_out>>

appVars == <<messages, running_rag, chat_started, g, script>>

\* the variables the specifications of the retrieval engine leave alone
startVars == <<store, index_file, starts>>

laterVars == <<sw, items, fmt, qs>>

otherVars == <<dedupeVars, appVars, startVars, ret, laterVars>>

\* the variables of the retrieval engine but pc
engineVars == <<chunks_cache, bm25_docs, alpha, pool_k, h, rr,
                query, alpha_out, norm_in, norm_out>>

vars == <<chunks_cache, bm25_docs, pc, alpha, pool_k, h, rr,
          query, alpha_out, norm_in, norm_out, otherVars>>

----------------------------------------------------------------------------
(* Bounds of the model *)

MaxDocs == 2        \* fragments in a corpus snapshot, documents in an index
MaxRaw == 1         \* largest raw lexical score of the pipeline, in units of 1e-8
MaxQLen == 3        \* tokens in a query
MaxNormLen == 3     \* raw scores in a list handed to the normalisation
MaxSources == 3     \* citations in a list handed to _dedupe_sources
MaxMessages == 4    \* messages kept in a chat session
MaxStarts == 3      \* process starts of a deployment

(* Program constants *)

INITIAL_K == 20     \* candidates taken before the rerank
ONE == 2            \* the literal 1.0 of "1.0 - distance", in halves
EPS == 1            \* the literal 1e-8 of the normalisation, in units of 1e-8
MIN_CONTEXT_CHARS == 300    \* generate_answer: a shorter context is not answered
MAX_CONTEXT_CHARS == 20000  \* generate_answer: a longer context is cut
DEFAULT_K == 5      \* retrieve: the k taken when none is given

Min(a, b) == IF a <= b THEN a ELSE b
Max(a, b) == IF a >= b THEN a ELSE b
Range(s) == {s[i] : i \in 1..Len(s)}

----------------------------------------------------------------------------
(* Corpus snapshots.  A fragment is the property map of one leaf record;   *)
(* the model keeps its identity (id) and its display_citation.  emit_leaf  *)
(* gives every window of an over-long leaf the display_citation of the     *)
(* leaf, so consecutive fragments may share a citation.                    *)

CitationLists(n) ==
    {c \in [1..n -> 1..n] :
        /\ c[1] = 1
        /\ \A i \in 1..(n - 1) : c[i + 1] \in {c[i], c[i] + 1}}

Corpora ==
    UNION {{[i \in 1..n |-> [id |-> i, display_citation |-> c[i]]] :
              c \in CitationLists(n)} : n \in 1..MaxDocs}

----------------------------------------------------------------------------
(* list.sort(key=..., reverse=True): stable, descending by key.            *)
(* key[i] is the key of s[i].                                              *)

StableSortDesc(s, key) ==
    LET n == Len(s)
        rank(i) == Cardinality({j \in 1..n :
                       key[j] > key[i] \/ (key[j] = key[i] /\ j < i)}) + 1
    IN  [p \in 1..n |-> s[CHOOSE i \in 1..n : rank(i) = p]]

Take(s, n) == SubSeq(s, 1, Min(Max(n, 0), Len(s)))

----------------------------------------------------------------------------
(* retrieve_bm25.  scores is bm25_index.get_scores: one raw score per      *)
(* document of the index.  order is np.argsort(-scores): the documents by  *)
(* descending score, equal scores in an order the sort does not fix.       *)

RawScores == 0..MaxRaw

ScoreVectors == [1..bm25_docs -> RawScores]

ArgSorts(scores) ==
    LET n == Len(scores)
    IN  {p \in [1..n -> 1..n] :
            /\ \A i, j \in 1..n : i # j => p[i] # p[j]
            /\ \A i \in 1..(n - 1) : scores[p[i]] >= scores[p[i + 1]]}

retrieve_bm25(scores, order, k) ==
    LET top_indices == Take(order, k)
    IN  [indices |-> top_indices,
         scores  |-> [i \in 1..Len(top_indices) |-> scores[top_indices[i]]]]

----------------------------------------------------------------------------
(* retrieve_dense.  resp is what near_vector returns: at most k distinct   *)
(* objects of the store, nearest first, each with its properties and a     *)
(* distance that may be absent (the empty set) or present ({d}).           *)

Distances == 0..ONE

Metadata == {{}} \cup {{d} : d \in Distances}

DenseResponses(k) ==
    LET objs == Range(chunks_cache)
        m    == Min(Max(k, 0), Cardinality(objs))
    IN  UNION {{r \in [1..n -> [props : objs, distance : Metadata]] :
                  /\ \A i, j \in 1..n : i # j => r[i].props # r[j].props
                  /\ \A i \in 1..(n - 1) : \A a \in r[i].distance :
                        \A b \in r[i + 1].distance : a <= b} : n \in 0..m}

\* score = 1.0 - obj.metadata.distance if obj.metadata.distance else 0.0
DenseScore(distance) ==
    IF distance # {} /\ (CHOOSE d \in distance : TRUE) # 0
    THEN ONE - (CHOOSE d \in distance : TRUE)
    ELSE 0

retrieve_dense(resp) ==
    [i \in 1..Len(resp) |-> [props |-> resp[i].props, score |-> DenseScore(resp[i].distance)]]

----------------------------------------------------------------------------
(* Lexical score normalisation, line 175:                                  *)
(*   bm25_scores_norm = np.array(bm25_scores) / (np.max(bm25_scores) + 1e-8) *)
(* The i-th normalised score is the fraction num[i] / den.  np.max raises  *)
(* ValueError on an empty list; Normalize is applied to non-empty lists.   *)

SeqMax(s) == CHOOSE x \in Range(s) : \A y \in Range(s) : x >= y

NormalizeNoEps(scores) == [num |-> scores, den |-> SeqMax(scores)]

Normalize(scores) == [num |-> scores, den |-> SeqMax(scores) + EPS]

----------------------------------------------------------------------------
(* retrieve_hybrid(query, alpha, k), lines 168-216.  The frame keeps the   *)
(* locals the claims speak of, as far as the call got: the lexical hits    *)
(* when the merge raised, all of them when it returned.  Fused scores are  *)
(* numerators over den.                                                    *)

EmptyH ==
    [err |-> "none", bm25_indices |-> <<>>, bm25_scores |-> <<>>, resp |-> <<>>,
     dense_results |-> <<>>, combined |-> <<>>, result |-> <<>>, den |-> 1]

\* lines 182-186: a later hit of the same display_citation overwrites an earlier one
Bm25ScoreMap(indices, scores) ==
    LET n == Len(indices)
        cit(i) == chunks_cache[indices[i]].display_citation
    IN  [c \in {cit(i) : i \in 1..n} |->
            scores[CHOOSE i \in 1..n : cit(i) = c /\ \A j \in (i + 1)..n : cit(j) # c]]

\* bm25_score_map.get(citation, 0.0)
MapGet(map, c) == IF c \in DOMAIN map THEN map[c] ELSE 0

\* lines 189-199: one candidate per dense result
DenseCandidates(a, dense_results, map, norm_den) ==
    [i \in 1..Len(dense_results) |->
        [props |-> dense_results[i].props,
         score |-> a * dense_results[i].score * norm_den
                   + (100 - a) * ONE * MapGet(map, dense_results[i].props.display_citation)]]

Bm25OnlyNone(a, indices, dense_results, map) == <<>>

\* lines 201-212: lexical hits whose display_citation no dense result carries
Bm25OnlyCandidates(a, indices, dense_results, map) ==
    LET dense_citations == {dense_results[i].props.display_citation :
                               i \in 1..Len(dense_results)}
        NotInDense(idx) == chunks_cache[idx].display_citation \notin dense_citations
        kept == SelectSeq(indices, NotInDense)
    IN  [i \in 1..Len(kept) |->
            [props |-> chunks_cache[kept[i]],
             score |-> (100 - a) * ONE * MapGet(map, chunks_cache[kept[i]].display_citation)]]

SortCombinedUnsorted(combined) == combined

\* line 215: combined.sort(key=lambda x: x["score"], reverse=True)
SortCombined(combined) ==
    StableSortDesc(combined, [i \in 1..Len(combined) |-> combined[i].score])

retrieve_hybrid(a, k, scores, order, resp) ==
    LET lex == retrieve_bm25(scores, order, k)
    IN  IF lex.indices = <<>>
        THEN \* line 175: np.max of an empty list raises ValueError
             [EmptyH EXCEPT !.err = "ValueError"]
        ELSE
        LET norm == Normalize(lex.scores)
            dense_results == retrieve_dense(resp)
            frame == [EmptyH EXCEPT !.bm25_indices = lex.indices,
                                    !.bm25_scores = lex.scores,
                                    !.den = 100 * ONE * norm.den]
        IN  IF \E i \in 1..Len(lex.indices) : lex.indices[i] > Len(chunks_cache)
            THEN \* line 184: chunks_cache[idx] raises IndexError
                 [frame EXCEPT !.err = "IndexError"]
            ELSE
            LET map == Bm25ScoreMap(lex.indices, norm.num)
                combined == DenseCandidates(a, dense_results, map, norm.den)
                            \o Bm25OnlyCandidates(a, lex.indices, dense_results, map)
            IN  [frame EXCEPT !.resp = resp,
                              !.dense_results = dense_results,
                              !.combined = combined,
                              !.result = Take(SortCombined(combined), k)]

----------------------------------------------------------------------------
(* rerank(query, candidates, final_k), lines 218-235.  scores is what      *)
(* reranker.predict returns, one score per candidate.  The frame keeps the *)
(* arguments, whether predict was called, its scores and the result.       *)

RerankScores == {0, 1, 2}

EmptyRR == [cands |-> <<>>, final_k |-> 0, predicted |-> FALSE, scores |-> <<>>, out |-> <<>>]

WithRerankScore(candidates, scores) ==
    [i \in 1..Len(candidates) |->
        [props |-> candidates[i].props, score |-> candidates[i].score,
         rerank_score |-> scores[i]]]

SortRerankedByFusion(scored) ==
    StableSortDesc(scored, [i \in 1..Len(scored) |-> scored[i].score])

\* line 234: candidates.sort(key=lambda x: x["rerank_score"], reverse=True)
SortReranked(scored) ==
    StableSortDesc(scored, [i \in 1..Len(scored) |-> scored[i].rerank_score])

RerankEmptyPredicts(candidates) == FALSE

\* lines 220-221: if not candidates: return []
RerankEmptyReturnsEarly(candidates) == candidates = <<>>

rerank(candidates, scores, fk) ==
    IF RerankEmptyReturnsEarly(candidates)
    THEN [EmptyRR EXCEPT !.final_k = fk]
    ELSE [cands |-> candidates, final_k |-> fk, predicted |-> TRUE, scores |-> scores,
          out |-> Take(SortReranked(WithRerankScore(candidates, scores)), fk)]

----------------------------------------------------------------------------
(* tune_alpha(query, base_alpha), lines 40-54.  A query is a sequence of   *)
(* tokens separated by single blanks; a token stands for a class of words  *)
(* the two patterns tell apart:                                            *)
(*   "Dieu"   one of Chương, Mục, Điều, Khoản, Điểm (any case)             *)
(*   "15"     a run of digits                                              *)
(*   "IV"     a Roman numeral                                              *)
(*   "chinh"  an ordinary word whose first letter is one of i v x l c      *)
(*            (chỉnh, luật, vay, ...)                                      *)
(*   "phat"   an ordinary word with another first letter                   *)
(*   "trieu"  a unit of NUMERIC_INFO_RE made of word characters            *)
(*   "%"      the unit % of NUMERIC_INFO_RE                                *)

Tokens == {"Dieu", "15", "IV", "chinh", "phat", "trieu", "%"}

Queries == UNION {[1..n -> Tokens] : n \in 0..MaxQLen}

\* [IVXLC\d]+ under re.IGNORECASE matches at the start of these tokens
StartsWithRomanOrDigit(t) == t \in {"15", "IV", "chinh"}

\* (unit)\b: a unit that ends in a word character is followed by a blank or
\* the end; "%" followed by a blank or the end has no word boundary after it
UnitWithBoundary(t) == t \in {"trieu"}

\* LEGAL_HINT_RE.search(query), line 40
LEGAL_HINT_RE(q) ==
    \E i \in 1..(Len(q) - 1) : q[i] = "Dieu" /\ StartsWithRomanOrDigit(q[i + 1])

\* NUMERIC_INFO_RE.search(query), line 41
NUMERIC_INFO_RE(q) ==
    \E i \in 1..(Len(q) - 1) : q[i] = "15" /\ UnitWithBoundary(q[i + 1])

tune_alpha(q, base_alpha) ==
    IF LEGAL_HINT_RE(q) THEN Max(30, base_alpha - 25)
    ELSE IF NUMERIC_INFO_RE(q) THEN Max(40, base_alpha - 15)
    ELSE Min(75, base_alpha + 20)

----------------------------------------------------------------------------
(* The process after start: chunks_cache is the snapshot fetched from the  *)
(* store; bm25_index is the persisted index when bm25_index.pkl exists     *)
(* (whatever snapshot it was built from) and otherwise is built from       *)
(* chunks_cache.                                                           *)

\* nothing asked of the answer generator yet
DedupeIdle ==
    /\ sources_in = <<>>
    /\ sources_out = <<>>

\* the chat page of a new session (src/frontend/app.py lines 130-136)
AppIdle ==
    /\ messages = <<>>
    /\ running_rag = FALSE
    /\ chat_started = FALSE
    /\ g = [called |-> "no"]
    /\ script = "idle"

\* the deployment as far as the other specifications look at it
StartIdle ==
    /\ store = <<>>
    /\ index_file = {}
    /\ starts = <<>>

\* no call of retrieve in progress
RetIdle == ret = [called |-> "no"]

\* nothing chunked, formatted or run concurrently
LaterIdle ==
    /\ sw = [called |-> "no"]
    /\ items = <<>>
    /\ fmt = [called |-> "no"]
    /\ qs = <<>>

OtherIdle == DedupeIdle /\ AppIdle /\ StartIdle /\ RetIdle /\ LaterIdle

\* no frame of the retrieval engine
FramesIdle ==
    /\ alpha = 0
    /\ pool_k = 0
    /\ h = EmptyH
    /\ rr = EmptyRR
    /\ query = <<>>
    /\ alpha_out = 0
    /\ norm_in = <<>>
    /\ norm_out = Normalize(<<0>>)

\* no call of the retrieval engine in progress
EngineIdle == pc = "idle" /\ FramesIdle

Idle ==
    /\ OtherIdle
    /\ EngineIdle

Init ==
    /\ chunks_cache \in Corpora
    /\ bm25_docs \in 1..MaxDocs
    /\ Idle

\* a call retrieve_hybrid(query, alpha, k): by retrieve (line 250, with the
\* classifier's alpha and INITIAL_K) or directly
CallHybrid ==
    /\ pc = "idle"
    /\ alpha' \in {0, 30, 40, 75, 100}
    /\ pool_k' \in 0..(MaxDocs - 1) \cup {INITIAL_K}
    /\ pc' = "hybrid"
    /\ UNCHANGED <<otherVars, chunks_cache, bm25_docs, h, rr, query, alpha_out, norm_in, norm_out>>

\* the body of retrieve_hybrid, with what the lexical index and the vector
\* store answer
RetrieveHybrid ==
    /\ pc = "hybrid"
    /\ \E scores \in ScoreVectors : \E order \in ArgSorts(scores) :
          \E resp \in DenseResponses(pool_k) :
             h' = retrieve_hybrid(alpha, pool_k, scores, order, resp)
    /\ pc' = "hybrid_ret"
    /\ UNCHANGED <<otherVars, chunks_cache, bm25_docs, alpha, pool_k, rr,
                   query, alpha_out, norm_in, norm_out>>

\* the call is over (it returned, or its exception left it): the frame goes
Return ==
    /\ pc \in {"hybrid_ret", "rerank_ret"}
    /\ pc' = "idle"
    /\ alpha' = 0
    /\ pool_k' = 0
    /\ h' = EmptyH
    /\ rr' = EmptyRR
    /\ UNCHANGED <<otherVars, chunks_cache, bm25_docs, query, alpha_out, norm_in, norm_out>>

Next ==
    \/ CallHybrid
    \/ RetrieveHybrid
    \/ Return

Spec == Init /\ [][Next]_vars

----------------------------------------------------------------------------
(* rerank on its own: every list of at most MaxDocs candidates over        *)
(* distinct fragments of the snapshot, with fusion scores of FusionScores. *)

FusionScores == {0, 1, 2}

CandidateLists ==
    LET objs == Range(chunks_cache)
    IN  UNION {{c \in [1..n -> [props : objs, score : FusionScores]] :
                  \A i, j \in 1..n : i # j => c[i].props # c[j].props} :
               n \in 0..Cardinality(objs)}

InitRerank ==
    /\ chunks_cache \in Corpora
    /\ bm25_docs = Len(chunks_cache)
    /\ Idle

Rerank ==
    /\ pc = "idle"
    /\ \E candidates \in CandidateLists, fk \in 0..MaxDocs :
          \E scores \in [1..Len(candidates) -> RerankScores] :
             rr' = rerank(candidates, scores, fk)
    /\ pc' = "rerank_ret"
    /\ UNCHANGED <<otherVars, chunks_cache, bm25_docs, alpha, pool_k, h,
                   query, alpha_out, norm_in, norm_out>>

NextRerank ==
    \/ Rerank
    \/ Return

SpecRerank == InitRerank /\ [][NextRerank]_vars

----------------------------------------------------------------------------
(* tune_alpha on its own: every query of the bounded set, base 0.55        *)

InitAlpha ==
    /\ OtherIdle
    /\ chunks_cache \in {c \in Corpora : Len(c) = 1}
    /\ bm25_docs = 1
    /\ pc = "idle"
    /\ alpha = 0
    /\ pool_k = 0
    /\ h = EmptyH
    /\ rr = EmptyRR
    /\ query \in Queries
    /\ alpha_out = 0
    /\ norm_in = <<>>
    /\ norm_out = Normalize(<<0>>)

TuneAlpha ==
    /\ pc = "idle"
    /\ alpha_out' = tune_alpha(query, 55)
    /\ pc' = "alpha_ret"
    /\ UNCHANGED <<otherVars, chunks_cache, bm25_docs, alpha, pool_k, h, rr,
                   query, norm_in, norm_out>>

NextAlpha == TuneAlpha

SpecAlpha == InitAlpha /\ [][NextAlpha]_vars

----------------------------------------------------------------------------
(* The normalisation on its own, on the score lists retrieve_bm25 returns  *)
(* (descending), over raw scores 0, 1e-8, 0.01, 5.0 and 10.0.              *)

NormRaws == {0, 1, 1000000, 500000000, 1000000000}

RawLists ==
    UNION {{s \in [1..n -> NormRaws] : \A i \in 1..(n - 1) : s[i] >= s[i + 1]} :
              n \in 1..MaxNormLen}

InitNorm ==
    /\ OtherIdle
    /\ chunks_cache \in {c \in Corpora : Len(c) = 1}
    /\ bm25_docs = 1
    /\ pc = "idle"
    /\ alpha = 0
    /\ pool_k = 0
    /\ h = EmptyH
    /\ rr = EmptyRR
    /\ query = <<>>
    /\ alpha_out = 0
    /\ norm_in \in RawLists
    /\ norm_out = Normalize(<<0>>)

NormalizeScores ==
    /\ pc = "idle"
    /\ norm_out' = Normalize(norm_in)
    /\ pc' = "norm_ret"
    /\ UNCHANGED <<otherVars, chunks_cache, bm25_docs, alpha, pool_k, h, rr,
                   query, alpha_out, norm_in>>

NextNorm == NormalizeScores

SpecNorm == InitNorm /\ [][NextNorm]_vars

----------------------------------------------------------------------------
(* What the claims about retrieve_hybrid speak of, read off its frame      *)

Returned == pc = "hybrid_ret" /\ h.err = "none"

Citation(cand) == cand.props.display_citation

\* the fragment the p-th lexical hit stands for, line 184
LexFragment(p) == chunks_cache[h.bm25_indices[p]]

LexHits == 1..Len(h.bm25_indices)

DenseCitations == {Citation(h.dense_results[i]) : i \in 1..Len(h.dense_results)}

DenseFragments == {h.dense_results[i].props : i \in 1..Len(h.dense_results)}

\* max raw score + 1e-8: the denominator of the normalised lexical scores
NormDen == SeqMax(h.bm25_scores) + EPS

\* the candidate's fused score equals alpha * dense + (1 - alpha) * raw / NormDen,
\* with alpha in hundredths and dense in halves
FusedScoreIs(cand, dense, raw) ==
    cand.score * (100 * ONE * NormDen)
        = h.den * (alpha * dense * NormDen + (100 - alpha) * ONE * raw)

\* the raw score of the last lexical hit that carries citation c
LastRawOf(c) ==
    h.bm25_scores[CHOOSE p \in LexHits :
        /\ LexFragment(p).display_citation = c
        /\ \A q \in LexHits : q > p => LexFragment(q).display_citation # c]

----------------------------------------------------------------------------
\* C1: the list retrieve_hybrid returns holds no two candidates with the same
\* citation key (display_citation), whatever the snapshot, alpha and pool size.
C1_NoCitationTwice ==
    Returned =>
        \A i, j \in 1..Len(h.result) :
            i # j => Citation(h.result[i]) # Citation(h.result[j])

UniqueCitations ==
    \A i, j \in 1..Len(chunks_cache) :
        i # j => chunks_cache[i].display_citation # chunks_cache[j].display_citation

\* C2 as stated: a fragment in the lexical top-k and not in the dense top-k is
\* in the returned list, with score (1 - alpha) * its normalised lexical score.
\* (Stated on the snapshots whose citation keys are unique.)
C2_LexicalOnlyReturned ==
    (Returned /\ UniqueCitations) =>
        \A p \in LexHits :
            LexFragment(p) \notin DenseFragments =>
                \E j \in 1..Len(h.result) :
                    /\ h.result[j].props = LexFragment(p)
                    /\ FusedScoreIs(h.result[j], 0, h.bm25_scores[p])

\* C2 amended: a lexical hit whose citation key no dense result carries is a
\* candidate of the merged list with score (1 - alpha) * the normalised score
\* recorded for its citation key (that of the last lexical hit with the key),
\* and it is in the returned list whenever the merged list holds at most k
\* candidates.
C2_LexicalOnlyMerged ==
    Returned =>
        \A p \in LexHits :
            LexFragment(p).display_citation \notin DenseCitations =>
                /\ \E j \in 1..Len(h.combined) :
                      /\ h.combined[j].props = LexFragment(p)
                      /\ FusedScoreIs(h.combined[j], 0,
                                      LastRawOf(LexFragment(p).display_citation))
                /\ Len(h.combined) <= pool_k =>
                      \E j \in 1..Len(h.result) :
                         /\ h.result[j].props = LexFragment(p)
                         /\ FusedScoreIs(h.result[j], 0,
                                         LastRawOf(LexFragment(p).display_citation))

\* C2 witness: beside a dense result, a lexical-only hit with a positive score
\* was returned
C2_Witness ==
    /\ Returned
    /\ h.dense_results # <<>>
    /\ \E p \in LexHits :
          /\ LexFragment(p).display_citation \notin DenseCitations
          /\ h.bm25_scores[p] > 0
          /\ \E j \in 1..Len(h.result) : h.result[j].props = LexFragment(p)

\* C3: a fragment of the dense results contributes exactly one candidate to the
\* merged list, with score alpha * its dense score + (1 - alpha) * its own
\* normalised lexical score (0 when it is not among the lexical hits).
C3_DenseCandidateScore ==
    Returned =>
        \A i \in 1..Len(h.dense_results) :
            LET f == h.dense_results[i].props
                own == {p \in LexHits : LexFragment(p) = f}
                raw == IF own = {} THEN 0 ELSE h.bm25_scores[CHOOSE p \in own : TRUE]
                js == {j \in 1..Len(h.combined) : h.combined[j].props = f}
            IN  /\ Cardinality(js) = 1
                /\ \A j \in js : FusedScoreIs(h.combined[j], h.dense_results[i].score, raw)

\* C4: with an empty lexical list, or an empty dense list, fusion raises nothing
\* and returns the candidates of the other side, the missing side adding 0.
\* (The lexical indices are those of the loaded snapshot: no index drift.)
C4_EmptySideNoError ==
    pc = "hybrid_ret" =>
        /\ h.bm25_indices = <<>> =>
              /\ h.err = "none"
              /\ Len(h.result) = Min(pool_k, Len(h.dense_results))
              /\ \A j \in 1..Len(h.result) :
                    \E i \in 1..Len(h.dense_results) :
                       /\ h.result[j].props = h.dense_results[i].props
                       /\ h.result[j].score * 100 * ONE
                             = h.den * alpha * h.dense_results[i].score
        /\ (/\ h.bm25_indices # <<>>
            /\ h.resp = <<>>
            /\ \A p \in LexHits : h.bm25_indices[p] <= Len(chunks_cache)) =>
              /\ h.err = "none"
              /\ Len(h.result) = Min(pool_k, Len(h.bm25_indices))
              /\ \A j \in 1..Len(h.result) :
                    /\ \E p \in LexHits : h.result[j].props = LexFragment(p)
                    /\ FusedScoreIs(h.result[j], 0, LastRawOf(Citation(h.result[j])))

\* C5: every returned object that carries a distance d gets score 1 - d, d = 0
\* included; only an object without a distance gets score 0.
C5_ScoreIsOneMinusDistance ==
    Returned =>
        \A i \in 1..Len(h.resp) :
            /\ h.resp[i].distance = {} => h.dense_results[i].score = 0
            /\ \A d \in h.resp[i].distance : h.dense_results[i].score = ONE - d

\* C7: the list retrieve_hybrid returns is ordered non-increasing by fused score.
C7_SortedByFusedScore ==
    Returned =>
        \A i \in 1..(Len(h.result) - 1) : h.result[i].score >= h.result[i + 1].score

\* C7 witness: the merged list was not in order and two candidates with
\* different scores were returned
C7_Witness ==
    /\ Returned
    /\ Len(h.result) >= 2
    /\ h.result[1].score > h.result[2].score
    /\ h.combined[1].score < h.combined[2].score

----------------------------------------------------------------------------
(* Approximate equality of a fraction num / den, within 1e-6                *)

ApproxOne(num, den) == den - num <= den \div 1000000

ApproxHalf(num, den) ==
    /\ 2 * num - den <= den \div 500000
    /\ den - 2 * num <= den \div 500000

ApproxZero(num, den) == num <= den \div 1000000

NormalizedInUnitInterval ==
    /\ norm_out.den > 0
    /\ \A i \in 1..Len(norm_out.num) : 0 <= norm_out.num[i] /\ norm_out.num[i] <= norm_out.den

\* raw [10, 5, 0] gives about [1.0, 0.5, 0.0]
NormalizedExample ==
    norm_in = <<1000000000, 500000000, 0>> =>
        /\ ApproxOne(norm_out.num[1], norm_out.den)
        /\ ApproxHalf(norm_out.num[2], norm_out.den)
        /\ ApproxZero(norm_out.num[3], norm_out.den)

\* C6 as stated: the normalised scores raw / (max raw + 1e-8) all lie in [0,1]
\* and the highest raw score maps to about 1.0; [10, 5, 0] gives about
\* [1.0, 0.5, 0.0].
C6_HighestMapsToOne ==
    pc = "norm_ret" =>
        /\ NormalizedInUnitInterval
        /\ \A i \in 1..Len(norm_in) :
              norm_in[i] = SeqMax(norm_in) => ApproxOne(norm_out.num[i], norm_out.den)
        /\ NormalizedExample

\* C6 amended: the normalised scores all lie in [0,1]; the highest raw score m
\* maps to m / (m + 1e-8), which is about 1.0 when m is at least 0.01 and is 0
\* when every raw score is 0; [10, 5, 0] gives about [1.0, 0.5, 0.0].
C6_Normalized ==
    pc = "norm_ret" =>
        /\ NormalizedInUnitInterval
        /\ Len(norm_out.num) = Len(norm_in)
        /\ \A i \in 1..Len(norm_in) :
              /\ norm_out.num[i] = norm_in[i] /\ norm_out.den = SeqMax(norm_in) + EPS
              /\ (norm_in[i] = SeqMax(norm_in) /\ norm_in[i] >= 1000000) =>
                    ApproxOne(norm_out.num[i], norm_out.den)
              /\ SeqMax(norm_in) = 0 => norm_out.num[i] = 0
        /\ NormalizedExample

\* C6 witness: the scores [10, 5, 0] were normalised
C6_Witness ==
    /\ pc = "norm_ret"
    /\ norm_in = <<1000000000, 500000000, 0>>

----------------------------------------------------------------------------
\* C8: rerank returns exactly min(len(candidates), final_k) candidates, each one
\* a candidate of its input (none invented, none repeated) carrying the score
\* the oracle gave it, ordered non-increasing by rerank_score whatever the
\* fusion scores are.
C8_RerankReorders ==
    pc = "rerank_ret" =>
        /\ Len(rr.out) = Min(Len(rr.cands), rr.final_k)
        /\ \E f \in [1..Len(rr.out) -> 1..Len(rr.cands)] :
              /\ \A i, j \in 1..Len(rr.out) : i # j => f[i] # f[j]
              /\ \A i \in 1..Len(rr.out) :
                    /\ rr.out[i].props = rr.cands[f[i]].props
                    /\ rr.out[i].score = rr.cands[f[i]].score
                    /\ rr.out[i].rerank_score = rr.scores[f[i]]
        /\ \A i \in 1..(Len(rr.out) - 1) :
              rr.out[i].rerank_score >= rr.out[i + 1].rerank_score

\* C8 witness: of two candidates the one fusion ranked second was returned
\* alone, on its higher rerank score
C8_Witness ==
    /\ pc = "rerank_ret"
    /\ Len(rr.cands) = 2
    /\ rr.final_k = 1
    /\ rr.cands[1].score > rr.cands[2].score
    /\ rr.scores[1] < rr.scores[2]
    /\ Len(rr.out) = 1
    /\ rr.out[1].props = rr.cands[2].props

\* C9: called with an empty candidate list, rerank returns an empty list and
\* never calls reranker.predict.
C9_EmptyNoPredict ==
    (pc = "rerank_ret" /\ rr.cands = <<>>) => (rr.out = <<>> /\ ~rr.predicted)

\* C9 witness: rerank returned from a call with no candidate and final_k > 0
C9_Witness ==
    /\ pc = "rerank_ret"
    /\ rr.cands = <<>>
    /\ rr.final_k > 0
    /\ rr.out = <<>>

----------------------------------------------------------------------------
(* What the classifier is meant to see in a query                          *)

\* a structural legal-reference token followed by a Roman numeral or a digit
HasLegalReference(q) ==
    \E i \in 1..(Len(q) - 1) : q[i] = "Dieu" /\ q[i + 1] \in {"15", "IV"}

\* a number followed by a recognised unit
HasNumberWithUnit(q) ==
    \E i \in 1..(Len(q) - 1) : q[i] = "15" /\ q[i + 1] \in {"trieu", "%"}

\* C10: with base 0.55, tune_alpha is 0.30 for a query with a legal reference
\* (even with a number and unit beside it), else 0.40 for a query with a number
\* followed by a recognised unit, else 0.75; so alpha lies in [0.30, 0.75].
C10_ThreeWayTable ==
    pc = "alpha_ret" =>
        /\ alpha_out = IF HasLegalReference(query) THEN 30
                       ELSE IF HasNumberWithUnit(query) THEN 40
                       ELSE 75
        /\ 30 <= alpha_out /\ alpha_out <= 75

----------------------------------------------------------------------------
(* _dedupe_sources(sources), src/generator.py lines 84-93.  A citation is  *)
(* a string, modelled as the sequence of its characters; " " and "\t"      *)
(* are the whitespace characters.                                          *)

IsSpace(c) == c \in {" ", "\t", "\n"}

\* str.lower, character by character
LowerChar(c) ==
    CASE c = "A" -> "a"
      [] c = "B" -> "b"
      [] c = "C" -> "c"
      [] OTHER -> c

lower(s) == [i \in 1..Len(s) |-> LowerChar(s[i])]

RECURSIVE lstrip(_)
lstrip(s) == IF s # <<>> /\ IsSpace(Head(s)) THEN lstrip(Tail(s)) ELSE s

RECURSIVE rstrip(_)
rstrip(s) ==
    IF s # <<>> /\ IsSpace(s[Len(s)]) THEN rstrip(SubSeq(s, 1, Len(s) - 1)) ELSE s

\* str.strip
strip(s) == rstrip(lstrip(s))

\* re.sub(r"\s+", " ", s): every run of whitespace becomes one blank
RECURSIVE CollapseWhitespace(_)
CollapseWhitespace(s) ==
    IF s = <<>> THEN <<>>
    ELSE IF IsSpace(Head(s))
         THEN <<" ">> \o CollapseWhitespace(lstrip(s))
         ELSE <<Head(s)>> \o CollapseWhitespace(Tail(s))

\* line 89: key = re.sub(r"\s+", " ", s.strip().lower())
DedupeKey(s) == CollapseWhitespace(lower(strip(s)))

\* lines 86-93: the loop, from position i on, with seen and out so far
RECURSIVE DedupeLoop(_, _, _, _)
DedupeLoop(sources, i, seen, out) ==
    IF i > Len(sources) THEN out
    ELSE LET key == DedupeKey(sources[i])
         IN  IF key # <<>> /\ key \notin seen
             THEN DedupeLoop(sources, i + 1, seen \cup {key}, Append(out, sources[i]))
             ELSE DedupeLoop(sources, i + 1, seen, out)

DedupeKeepsAll(sources) == sources

dedupe_sources(sources) == DedupeLoop(sources, 1, {}, <<>>)

----------------------------------------------------------------------------
(* _dedupe_sources on its own: every list of at most MaxSources citations  *)
(* out of CitationStrings.                                                 *)

CitationStrings ==
    {<<>>, <<" ">>, <<"A">>, <<"a">>, <<"b">>, <<" ", "a">>, <<"A", "\t">>,
     <<"a", " ", "b">>, <<"A", "\t", " ", "B">>}

SourceLists == UNION {[1..n -> CitationStrings] : n \in 0..MaxSources}

InitDedupe ==
    /\ chunks_cache \in {c \in Corpora : Len(c) = 1}
    /\ bm25_docs = 1
    /\ EngineIdle
    /\ sources_in \in SourceLists
    /\ sources_out = <<>>
    /\ AppIdle
    /\ StartIdle
    /\ RetIdle
    /\ LaterIdle

DedupeSources ==
    /\ pc = "idle"
    /\ sources_out' = dedupe_sources(sources_in)
    /\ pc' = "dedupe_ret"
    /\ UNCHANGED <<ret, laterVars, engineVars, sources_in, appVars, startVars>>

NextDedupe == DedupeSources

SpecDedupe == InitDedupe /\ [][NextDedupe]_vars

----------------------------------------------------------------------------
(* What "the same citation" means to the reader: the same words, letter    *)
(* case and the whitespace around and between them set aside.              *)

\* the words of a string: its maximal runs of non-whitespace, lower-cased
RECURSIVE WordsFrom(_, _, _)
WordsFrom(s, i, word) ==
    IF i > Len(s) THEN (IF word = <<>> THEN <<>> ELSE <<word>>)
    ELSE IF IsSpace(s[i])
         THEN (IF word = <<>> THEN <<>> ELSE <<word>>) \o WordsFrom(s, i + 1, <<>>)
         ELSE WordsFrom(s, i + 1, Append(word, LowerChar(s[i])))

Words(s) == WordsFrom(s, 1, <<>>)

\* the positions of sources_in that hold the first occurrence of a citation
FirstOccurrences ==
    {i \in 1..Len(sources_in) :
        /\ Words(sources_in[i]) # <<>>
        /\ \A j \in 1..(i - 1) : Words(sources_in[j]) # Words(sources_in[i])}

\* ["A", "b", "A", "C"] yields ["A", "b", "C"]
DedupeExample ==
    dedupe_sources(<<<<"A">>, <<"b">>, <<"A">>, <<"C">>>>) = <<<<"A">>, <<"b">>, <<"C">>>>

\* C11: _dedupe_sources returns the subsequence of its input made of the first
\* occurrence of every citation, citations compared after trimming, lower-casing
\* and collapsing whitespace: later duplicates and empty citations are dropped,
\* the order of the input is kept; ["A","b","A","C"] yields ["A","b","C"].
C11_FirstOccurrencesInOrder ==
    pc = "dedupe_ret" =>
        /\ Len(sources_out) = Cardinality(FirstOccurrences)
        /\ \E f \in [1..Len(sources_out) -> FirstOccurrences] :
              /\ \A i \in 1..(Len(sources_out) - 1) : f[i] < f[i + 1]
              /\ \A i \in 1..Len(sources_out) : sources_out[i] = sources_in[f[i]]
        /\ DedupeExample

\* C11 witness: of three citations the second was dropped as a duplicate of the
\* first in another case and spacing, and the third was kept
C11_Witness ==
    /\ pc = "dedupe_ret"
    /\ Len(sources_in) = 3
    /\ sources_in[1] # sources_in[2]
    /\ Words(sources_in[1]) = Words(sources_in[2])
    /\ sources_out = <<sources_in[1], sources_in[3]>>

----------------------------------------------------------------------------
(* generate_answer(question, context, sources), src/generator.py lines     *)
(* 108-148.  A context is modelled by its length in characters and by      *)
(* whether it is blank (empty or all whitespace).  A text shown to the     *)
(* user is the sequence of its parts: fixed sentences of the program,      *)
(* named in capitals, and the parts put in at run time.  oracle is what    *)
(* model.generate_content does: it returns a text (maybe empty) or raises. *)

ContextLens ==
    {0, MIN_CONTEXT_CHARS - 1, MIN_CONTEXT_CHARS, MAX_CONTEXT_CHARS + 1}

Contexts ==
    {c \in [len : ContextLens, blank : BOOLEAN] : c.len = 0 => c.blank}

\* what an oracle or the retrieval can raise during a query
FailureDetails == {"IndexError: list index out of range", "ConnectionError: timed out"}

OracleOutcomes ==
    {[kind |-> "text", text |-> "answer"], [kind |-> "text", text |-> ""]}
        \cup {[kind |-> "raise", text |-> e] : e \in FailureDetails}

\* line 124
INSUFFICIENT == "Trong cac trich dan luat duoc cung cap, khong co du thong tin"

\* line 143
NOT_FOUND == "Khong tim thay du thong tin trong cac van ban luat da duoc lap chi muc"

\* line 145
GEMINI_ERROR == "Loi khi goi Gemini API: "

\* lines 96-100: _truncate_context
truncate_context(ctx) ==
    IF ctx.len <= MAX_CONTEXT_CHARS
    THEN [context |-> ctx, cut |-> FALSE]
    ELSE [context |-> [ctx EXCEPT !.len = MAX_CONTEXT_CHARS], cut |-> TRUE]

ContextBlankOnly(context) == context.blank

\* line 123: not context.strip() or len(context) < 300
ContextTooShort(context) == context.blank \/ context.len < MIN_CONTEXT_CHARS

generate_answer(context, sources, oracle) ==
    IF ContextTooShort(context)
    THEN [called |-> "yes", context |-> context, sources_arg |-> sources,
          oracle_called |-> FALSE, prompt |-> truncate_context(context),
          answer |-> <<INSUFFICIENT>>, sources |-> <<>>]
    ELSE [called |-> "yes", context |-> context, sources_arg |-> sources,
          oracle_called |-> TRUE, prompt |-> truncate_context(context),
          answer |-> IF oracle.kind = "raise" THEN <<GEMINI_ERROR, oracle.text>>
                     ELSE IF oracle.text = "" THEN <<NOT_FOUND>>
                     ELSE <<oracle.text>>,
          sources |-> dedupe_sources(sources)]

----------------------------------------------------------------------------
(* The chat page, src/frontend/app.py.  retrieve is called with the        *)
(* slider's k; what it does is modelled by its outcome: it returns a       *)
(* context and the citations of the fragments, or it raises.               *)

APOLOGY == "Xin loi, da xay ra loi: "

Questions == {"q"}

AppSourceLists ==
    {<<>>, <<<<"A">>>>, <<<<"A">>, <<"a">>>>}

RetrieveOutcomes ==
    {[kind |-> "return", context |-> c, sources |-> src] :
        c \in Contexts, src \in AppSourceLists}
      \cup {[kind |-> "raise", text |-> e] : e \in FailureDetails}

InitApp ==
    /\ chunks_cache \in {c \in Corpora : Len(c) = 1}
    /\ bm25_docs = 1
    /\ EngineIdle
    /\ DedupeIdle
    /\ AppIdle
    /\ StartIdle
    /\ RetIdle
    /\ LaterIdle

\* A run of the script is one step of the model up to the place where it
\* ends, reruns or waits for the retrieval; script is "idle" between runs and
\* "answered" while the run stands at the end of the spinner block with the
\* reply appended.  A widget the user touches while a run is under way asks
\* for a rerun: Streamlit aborts the run at the next st.* call, by an
\* exception `except Exception` does not catch, and starts the new run.

\* lines 152-154: the button of the welcome page
StartChat ==
    /\ script = "idle"
    /\ ~chat_started
    /\ chat_started' = TRUE
    /\ UNCHANGED <<ret, laterVars, engineVars, pc, startVars, dedupeVars, messages, running_rag, g, script>>

\* lines 207-211: the button "Xoa hoi thoai"
ClearChat ==
    /\ script = "idle"
    /\ chat_started
    /\ messages' = <<>>
    /\ chat_started' = FALSE
    /\ running_rag' = FALSE
    /\ UNCHANGED <<ret, laterVars, engineVars, pc, startVars, dedupeVars, g, script>>

\* any question is taken
AcceptsInputAlways(running) == TRUE

\* line 287: `not st.session_state.running_rag`
AcceptsInput(running) == ~running

\* lines 217-240 and 287-293: a question typed or picked; it is taken when no
\* query is running and dropped otherwise
SubmitQuestion ==
    /\ script = "idle"
    /\ chat_started
    /\ Len(messages) < MaxMessages
    /\ \E user_input \in Questions :
          IF AcceptsInput(running_rag)
          THEN /\ messages' = Append(messages, [role |-> "user", content |-> <<user_input>>,
                                                sources |-> <<>>])
               /\ running_rag' = TRUE
          ELSE UNCHANGED <<messages, running_rag>>
    /\ UNCHANGED <<ret, laterVars, engineVars, pc, startVars, dedupeVars, chat_started, g, script>>

\* lines 295-328: the query handling inside the spinner block
HandleRAG ==
    /\ script = "idle"
    /\ chat_started
    /\ messages # <<>>
    /\ messages[Len(messages)].role = "user"
    /\ running_rag
    /\ \E retrieved \in RetrieveOutcomes, oracle \in OracleOutcomes :
          IF retrieved.kind = "raise"
          THEN /\ messages' = Append(messages,
                      [role |-> "assistant", content |-> <<APOLOGY, retrieved.text>>,
                       sources |-> <<>>])
               /\ g' = [called |-> "no"]
          ELSE LET frame == generate_answer(retrieved.context, retrieved.sources, oracle)
               IN  /\ messages' = Append(messages,
                          [role |-> "assistant", content |-> frame.answer,
                           sources |-> frame.sources])
                   /\ g' = frame
    /\ script' = "answered"
    /\ UNCHANGED <<ret, laterVars, engineVars, pc, startVars, dedupeVars, chat_started, running_rag>>

\* lines 330-331: no rerun was asked for during the handling
FinishRAG ==
    /\ script = "answered"
    /\ running_rag' = FALSE
    /\ script' = "idle"
    /\ UNCHANGED <<ret, laterVars, engineVars, pc, startVars, dedupeVars, messages, chat_started, g>>

\* the widgets of the page a user can touch while the spinner shows
Widgets == {"chat_input", "slider", "clear"}

\* line 298, leaving the spinner block after the user touched a widget during
\* the handling: the run is aborted before line 330, and the new run sees the
\* widget (lines 207-211 for the clear button, line 287 for a question)
InterruptRAG ==
    /\ script = "answered"
    /\ \E w \in Widgets :
          IF w = "clear"
          THEN /\ messages' = <<>>
               /\ chat_started' = FALSE
               /\ running_rag' = FALSE
          ELSE /\ w = "chat_input" => ~AcceptsInput(running_rag)
               /\ UNCHANGED <<messages, chat_started, running_rag>>
    /\ script' = "idle"
    /\ UNCHANGED <<ret, laterVars, engineVars, pc, startVars, dedupeVars, g>>

NextApp ==
    \/ StartChat
    \/ ClearChat
    \/ SubmitQuestion
    \/ HandleRAG
    \/ FinishRAG
    \/ InterruptRAG

SpecApp == InitApp /\ [][NextApp]_vars

----------------------------------------------------------------------------
\* C12: when the context is blank or shorter than 300 characters,
\* generate_answer returns the fixed insufficient-information sentence and an
\* empty citation list without calling the generation oracle, whatever
\* citations it was handed.
C12_ShortContextSentinel ==
    (g.called = "yes" /\ (g.context.blank \/ g.context.len < 300)) =>
        /\ g.answer = <<INSUFFICIENT>>
        /\ g.sources = <<>>
        /\ ~g.oracle_called

\* C12 witness: a context of 299 characters came with citations and was
\* answered by the fixed sentence
C12_Witness ==
    /\ g.called = "yes"
    /\ ~g.context.blank
    /\ g.context.len = 299
    /\ g.sources_arg # <<>>
    /\ g.answer = <<INSUFFICIENT>>

\* C20: whenever retrieval or answer generation fails during a query, the text
\* the chat page shows for it holds nothing of the internal failure detail.
C20_NoRawErrorShown ==
    \A i \in 1..Len(messages) :
        messages[i].role = "assistant" =>
            \A p \in 1..Len(messages[i].content) :
                messages[i].content[p] \notin FailureDetails

----------------------------------------------------------------------------
\* C16: the lexical hits come in descending score order and hits with equal
\* scores come in the order of their corpus index, so that the score vector
\* alone fixes the result of retrieve_bm25.
C16_TiesByCorpusIndex ==
    pc = "hybrid_ret" =>
        \A p, q \in LexHits :
            p < q =>
                \/ h.bm25_scores[p] > h.bm25_scores[q]
                \/ /\ h.bm25_scores[p] = h.bm25_scores[q]
                   /\ h.bm25_indices[p] < h.bm25_indices[q]

\* C18: when the loaded lexical index scores another number of documents than
\* the loaded snapshot holds (fragments added or removed since the index was
\* built), a call of retrieve_hybrid with k > 0 still returns: no error.
C18_DriftNoError ==
    (pc = "hybrid_ret" /\ bm25_docs # Len(chunks_cache) /\ pool_k > 0) =>
        h.err = "none"

----------------------------------------------------------------------------
(* Process start, src/retriever_custom.py lines 118-130.  A lexical index  *)
(* is modelled by the documents it was built from, in corpus order.  The   *)
(* file bm25_index.pkl is the set of the indexes it holds: none or one.    *)
(* Between starts the store may change (re-ingestion by build_index.py).   *)
(* The deployment begins without the file, which only build_bm25_index     *)
(* writes.                                                                 *)

\* lines 88-116: the index over the tokenised fragments
build_bm25_index(chunks) == [docs |-> [i \in 1..Len(chunks) |-> chunks[i].id]]

IndexFileNeverExists(file) == FALSE

\* line 124: BM25_INDEX_FILE.exists()
IndexFileExists(file) == file # {}

InitStartup ==
    /\ store \in Corpora
    /\ index_file = {}
    /\ starts = <<>>
    /\ chunks_cache = <<>>
    /\ bm25_docs = 0
    /\ pc = "down"
    /\ FramesIdle
    /\ DedupeIdle
    /\ AppIdle
    /\ RetIdle
    /\ LaterIdle

\* lines 118-130: the module is imported
Start ==
    /\ pc = "down"
    /\ Len(starts) < MaxStarts
    /\ LET chunks == store
           exists == IndexFileExists(index_file)
           bm25_index == IF exists THEN CHOOSE ix \in index_file : TRUE
                         ELSE build_bm25_index(chunks)
       IN  /\ chunks_cache' = chunks
           /\ bm25_docs' = Len(bm25_index.docs)
           /\ index_file' = IF exists THEN index_file ELSE {bm25_index}
           /\ starts' = Append(starts, [corpus |-> chunks, existed |-> exists,
                                        file_before |-> index_file,
                                        bm25_index |-> bm25_index])
    /\ pc' = "idle"
    /\ UNCHANGED <<alpha, pool_k, h, rr, query, alpha_out, norm_in, norm_out,
                   store, dedupeVars, appVars, ret, laterVars>>

\* lines 325-333: the process ends
Stop ==
    /\ pc = "idle"
    /\ pc' = "down"
    /\ chunks_cache' = <<>>
    /\ bm25_docs' = 0
    /\ UNCHANGED <<alpha, pool_k, h, rr, query, alpha_out, norm_in, norm_out,
                   startVars, dedupeVars, appVars, ret, laterVars>>

\* the ingestion replaces the fragments of the store
Reingest ==
    /\ store' \in Corpora \ {store}
    /\ UNCHANGED <<ret, laterVars, engineVars, pc, index_file, starts, dedupeVars, appVars>>

NextStartup ==
    \/ Start
    \/ Stop
    \/ Reingest

SpecStartup == InitStartup /\ [][NextStartup]_vars

----------------------------------------------------------------------------
\* C19: a process start loads the lexical index from the file whenever the
\* file exists, whatever the corpus it loaded, and leaves the file as it is;
\* it builds the index from the corpus it loaded and writes it exactly when
\* the file is absent; so, in a deployment that begins without the file, after
\* any sequence of starts the file exists and holds the index of the first
\* start's corpus.
C19_LoadOrBuildOnce ==
    starts # <<>> =>
        /\ \A n \in 1..Len(starts) :
              /\ starts[n].existed <=> starts[n].file_before # {}
              /\ starts[n].existed => starts[n].bm25_index \in starts[n].file_before
              /\ ~starts[n].existed =>
                    starts[n].bm25_index = build_bm25_index(starts[n].corpus)
              /\ starts[n].existed <=> n > 1
        /\ index_file = {build_bm25_index(starts[1].corpus)}

\* C19 witness: the second start loaded the file although its corpus was no
\* longer the one the index was built from
C19_Witness ==
    /\ Len(starts) >= 2
    /\ starts[2].existed
    /\ starts[2].corpus # starts[1].corpus
    /\ starts[2].bm25_index = build_bm25_index(starts[1].corpus)

----------------------------------------------------------------------------
(* retrieve(question, k), src/retriever_custom.py lines 238-320.  The two  *)
(* remote oracles of a query, the vector store behind retrieve_dense and   *)
(* the cross-encoder behind rerank, return or raise.  The frame ret keeps  *)
(* the arguments, which oracle failed, and what retrieve returned (context *)
(* as the sequence of its blocks, sources) or the error it raised.  The    *)
(* frames h and rr and the variables alpha and pool_k are those of the     *)
(* calls retrieve made.                                                    *)

RetrieveKDefault(k) == DEFAULT_K

\* line 244: k = int(k) if k else 5
RetrieveK(k) == IF k # 0 THEN k ELSE DEFAULT_K

PoolSizeOfK(k) == k

\* line 250: the pool size handed to retrieve_hybrid
PoolSize(k) == INITIAL_K

(* lines 259-313: the block of one fragment.  A string is the list of its
   pieces: a literal, a stored value or one whitespace character each. *)

NumStr(n) == <<"0", "1", "2", "3", "4", "5", "6", "7", "8", "9">>[n + 1]

\* sep.join(parts)
RECURSIVE JoinSeq(_, _)
JoinSeq(parts, sep) ==
    IF parts = <<>> THEN <<>>
    ELSE IF Len(parts) = 1 THEN parts[1]
    ELSE parts[1] \o sep \o JoinSeq(Tail(parts), sep)

\* p.get(name) or ""
Field(p, name) == IF name \in DOMAIN p THEN p[name] ELSE <<>>

\* the list holding a line, or no line
LineIf(cond, line) == IF cond THEN <<line>> ELSE <<>>

\* lines 282-287: the article line
ArticleLine(article_no, article_title) ==
    strip(<<"Dieu", " ">> \o article_no)
    \o (IF article_title # <<>> THEN <<".", " ">> \o article_title ELSE <<>>)

\* the point line put before the clause line
LeafLinesPointFirst(clause_no, clause_head, point, body) ==
    IF point # <<>>
    THEN <<<<"Diem", " ">> \o point \o <<")">>>>
         \o LineIf(clause_no # <<>>, <<"Khoan", " ">> \o clause_no)
         \o LineIf(body # <<>>, body)
    ELSE LineIf(clause_no # <<>>, <<"Khoan", " ">> \o clause_no) \o LineIf(body # <<>>, body)

\* lines 290-308: clause line, point line and body of a point-level leaf,
\* clause line and body of a clause-level leaf
LeafLines(clause_no, clause_head, point, body) ==
    IF point # <<>>
    THEN (IF clause_no # <<>> /\ clause_head # <<>>
          THEN <<<<"Khoan", " ">> \o clause_no \o <<".", " ">> \o clause_head>>
          ELSE IF clause_no # <<>> THEN <<<<"Khoan", " ">> \o clause_no>>
          ELSE <<>>)
         \o <<<<"Diem", " ">> \o point \o <<")">>>>
         \o LineIf(body # <<>>, body)
    ELSE LineIf(clause_no # <<>>, <<"Khoan", " ">> \o clause_no)
         \o LineIf(body # <<>>, body)

\* lines 262-308: the lines of a block
BlockLines(p) ==
    LET law == strip(Field(p, "law"))
        chapter == strip(Field(p, "chapter"))
        section == strip(Field(p, "section"))
        article_no == strip(Field(p, "article_no"))
        article_title == strip(Field(p, "article_title"))
        clause_no == Field(p, "clause_no")
        clause_head == strip(Field(p, "clause_head"))
        point == strip(Field(p, "point"))
        body_for_ctx == strip(Field(p, "text"))
        display_citation == strip(Field(p, "display_citation"))
    IN  LineIf(display_citation # <<>>, <<"[Can cu: ">> \o display_citation \o <<"]">>)
        \o LineIf(law # <<>>, law)
        \o LineIf(chapter # <<>>, chapter)
        \o LineIf(section # <<>>, section)
        \o LineIf(article_no # <<>> \/ article_title # <<>>,
                  ArticleLine(article_no, article_title))
        \o LeafLines(clause_no, clause_head, point, body_for_ctx)

\* line 310: ctx_chunk
Block(p) == strip(JoinSeq(BlockLines(p), <<"\n">>))

\* lines 311-312: the blocks kept, the empty ones left out
ContextBlocks(props) ==
    SelectSeq([i \in 1..Len(props) |-> Block(props[i])], LAMBDA b : b # <<>>)

\* lines 255-320 on the stored properties of the top results
FormatProps(props) ==
    [context |-> JoinSeq(ContextBlocks(props), <<"\n", "\n">>),
     sources |-> [i \in 1..Len(props) |-> Field(props[i], "display_citation")]]

\* the stored properties of a fragment of the engine's corpus, which carries a
\* citation and a text only
CorpusProps(p) ==
    [display_citation |-> <<"c", NumStr(p.display_citation)>>,
     text |-> <<"t", NumStr(p.id)>>]

\* lines 259-313: the block of one fragment of the corpus, headed by its citation
RenderBlock(p) == Block(CorpusProps(p))

\* lines 255-320: context and sources of the top results
FormatResults(top_results) ==
    [context |-> [i \in 1..Len(top_results) |-> RenderBlock(top_results[i].props)],
     sources |-> [i \in 1..Len(top_results) |-> top_results[i].props.display_citation]]

\* near_vector returns a response, every object with the distance asked for
\* (line 148), or raises
DenseOutcomes(k) ==
    {[raised |-> FALSE, resp |-> r] :
        r \in {x \in DenseResponses(k) : \A i \in 1..Len(x) : x[i].distance # {}}}
        \cup {[raised |-> TRUE, resp |-> <<>>]}

\* reranker.predict returns one score per pair, here a low or a high one,
\* or raises
PredictOutcomes(n) ==
    {[raised |-> FALSE, scores |-> sc] : sc \in [1..n -> {0, 2}]}
        \cup {[raised |-> TRUE, scores |-> <<>>]}

\* the question asked: one with a legal reference
RetrieveQuestions == {<<"Dieu", "15">>}

\* what the lexical index answers: a document does not match the question
\* (score 0) or matches it (the largest score)
RetrieveScoreVectors == [1..bm25_docs -> {0, MaxRaw}]

\* the k asked for: none, one, and the pool size itself
RetrieveKs == {0, 1, INITIAL_K}

RetFrame(question, k) ==
    [called |-> "yes", question |-> question, k_arg |-> k, k |-> RetrieveK(k),
     dense_failed |-> FALSE, rerank_failed |-> FALSE, err |-> "none",
     context |-> <<>>, sources |-> <<>>]

InitRetrieve ==
    /\ chunks_cache \in Corpora
    /\ bm25_docs \in 1..MaxDocs
    /\ Idle

\* the whole of retrieve, with what the lexical index and the oracles answer
Retrieve ==
    /\ pc = "idle"
    /\ \E question \in RetrieveQuestions, k \in RetrieveKs :
       \E scores \in RetrieveScoreVectors : \E order \in ArgSorts(scores) :
       \E dense \in DenseOutcomes(PoolSize(RetrieveK(k))) :
          LET frame == RetFrame(question, k)
              a == tune_alpha(question, 55)
              pool == PoolSize(frame.k)
              hf == retrieve_hybrid(a, pool, scores, order, dense.resp)
          IN  /\ alpha' = a
              /\ pool_k' = pool
              /\ IF dense.raised
                 THEN \* line 178: the exception of the oracle leaves retrieve
                      /\ h' = [EmptyH EXCEPT !.err = "OracleError"]
                      /\ rr' = EmptyRR
                      /\ ret' = [frame EXCEPT !.dense_failed = TRUE, !.err = "OracleError"]
                 ELSE IF hf.err # "none"
                 THEN /\ h' = hf
                      /\ rr' = EmptyRR
                      /\ ret' = [frame EXCEPT !.err = hf.err]
                 ELSE /\ h' = hf
                      /\ \E predict \in PredictOutcomes(Len(hf.result)) :
                            IF predict.raised /\ hf.result # <<>>
                            THEN \* line 228: the exception of the oracle leaves retrieve
                                 /\ rr' = [EmptyRR EXCEPT !.cands = hf.result,
                                                          !.final_k = frame.k]
                                 /\ ret' = [frame EXCEPT !.rerank_failed = TRUE,
                                                         !.err = "OracleError"]
                            ELSE LET rf == rerank(hf.result, predict.scores, frame.k)
                                     out == FormatResults(rf.out)
                                 IN  /\ rr' = rf
                                     /\ ret' = [frame EXCEPT !.context = out.context,
                                                             !.sources = out.sources]
    /\ pc' = "retrieve_ret"
    /\ UNCHANGED <<chunks_cache, bm25_docs, query, alpha_out, norm_in, norm_out,
                   dedupeVars, appVars, startVars, laterVars>>

\* retrieve is over: its frames go
ReturnRetrieve ==
    /\ pc = "retrieve_ret"
    /\ pc' = "idle"
    /\ alpha' = 0
    /\ pool_k' = 0
    /\ h' = EmptyH
    /\ rr' = EmptyRR
    /\ ret' = [called |-> "no"]
    /\ UNCHANGED <<chunks_cache, bm25_docs, query, alpha_out, norm_in, norm_out,
                   dedupeVars, appVars, startVars, laterVars>>

NextRetrieve ==
    \/ Retrieve
    \/ ReturnRetrieve

SpecRetrieve == InitRetrieve /\ [][NextRetrieve]_vars

----------------------------------------------------------------------------
(* What the claims about retrieve speak of, read off its frames            *)

ReturnedRetrieve == pc = "retrieve_ret" /\ ret.err = "none"

\* fragment f has the strictly highest score among the lexical hits and
\* among the dense results
TopOnBothPaths(f) ==
    /\ \E p \in LexHits :
          /\ LexFragment(p) = f
          /\ \A q \in LexHits \ {p} : h.bm25_scores[p] > h.bm25_scores[q]
    /\ \E i \in 1..Len(h.dense_results) :
          /\ h.dense_results[i].props = f
          /\ \A j \in 1..Len(h.dense_results) \ {i} :
                h.dense_results[i].score > h.dense_results[j].score

\* the reranker scored f strictly higher than every other candidate of the pool
RerankedFirst(f) ==
    \E i \in 1..Len(rr.cands) :
        /\ rr.cands[i].props = f
        /\ rr.predicted
        /\ \A j \in 1..Len(rr.cands) \ {i} : rr.scores[i] > rr.scores[j]

OnlyFragmentReturned(f) ==
    /\ ret.context = <<RenderBlock(f)>>
    /\ ret.sources = <<f.display_citation>>

\* C13 as stated: if one fragment scores highest on both the lexical and the
\* dense path, retrieve(Q, k=1) returns that fragment's block as the whole
\* context and its citation key as the only citation.  (Stated on the
\* snapshots whose citation keys are unique and whose index is not drifted.)
C13_TopOfBothPathsReturned ==
    (/\ ReturnedRetrieve
     /\ ret.k_arg = 1
     /\ UniqueCitations
     /\ bm25_docs = Len(chunks_cache)) =>
        \A f \in Range(chunks_cache) :
            TopOnBothPaths(f) => OnlyFragmentReturned(f)

\* C13 amended: if one fragment scores highest on both the lexical and the
\* dense path and the reranker scores it strictly higher than every other
\* candidate of the pool, then retrieve(Q, k=1), when it returns, returns that
\* fragment's block as the whole context and its citation key as the only
\* citation.
C13_TopOfAllThreeReturned ==
    (ReturnedRetrieve /\ ret.k_arg = 1) =>
        \A f \in Range(chunks_cache) :
            (TopOnBothPaths(f) /\ RerankedFirst(f)) => OnlyFragmentReturned(f)

\* C13 witness: of two candidates, the one on top of both paths and of the
\* reranker was returned alone for k = 1
C13_Witness ==
    /\ ReturnedRetrieve
    /\ ret.k_arg = 1
    /\ Len(rr.cands) >= 2
    /\ \E f \in Range(chunks_cache) :
          TopOnBothPaths(f) /\ RerankedFirst(f) /\ OnlyFragmentReturned(f)

\* C14: for every k >= 1, retrieve runs the fusion with pool size INITIAL_K = 20
\* whatever k is, hands the whole pool to the reranker, and returns
\* min(k, size of the pool) citations, so at most k.
C14_FixedPoolAtMostK ==
    (pc = "retrieve_ret" /\ ret.k_arg >= 1) =>
        /\ pool_k = INITIAL_K
        /\ ret.err = "none" =>
              /\ Len(h.result) = Min(INITIAL_K, Len(h.combined))
              /\ h.result # <<>> => rr.cands = h.result
              /\ Len(ret.sources) = Min(ret.k_arg, Len(h.result))
              /\ Len(ret.sources) <= ret.k_arg
              /\ Len(ret.context) = Len(ret.sources)

\* C14 witness: a pool of at least two candidates was cut to one citation
C14_Witness ==
    /\ ReturnedRetrieve
    /\ ret.k_arg = 1
    /\ pool_k = 20
    /\ Len(h.result) >= 2
    /\ Len(ret.sources) = 1

\* C15: for every call retrieve(question, k) with k >= 1, the pool size handed
\* from the fusion to the reranker is strictly larger than k.
C15_PoolLargerThanK ==
    (pc = "retrieve_ret" /\ ret.k_arg >= 1) => pool_k > ret.k

\* C17: a failure of a remote oracle does not fail the query: when the dense
\* path fails retrieve returns, on the lexical candidates alone; when the
\* reranker fails retrieve returns the candidates in fusion order.
C17_OracleFailureTolerated ==
    pc = "retrieve_ret" =>
        /\ ret.dense_failed =>
              /\ ret.err = "none"
              /\ \A i \in 1..Len(ret.sources) :
                    \E p \in LexHits : LexFragment(p).display_citation = ret.sources[i]
        /\ ret.rerank_failed =>
              /\ ret.err = "none"
              /\ ret.sources = FormatResults(Take(h.result, ret.k)).sources

-----------------------------------------------------------------------------
(* clean_and_split.py: sliding_windows_by_tokens.  A text is modelled by the
   token list re.findall(r'\S+|\s+', text) yields: the k-th word is the token
   k, a run of whitespace is the token 0. *)

MaxWords == 4       \* words of a text given to sliding_windows_by_tokens
MaxWin == 3         \* largest win_tokens and overlap_tokens tried

MAX_TOKENS_LEAF == 1500
WIN_TOK == 900
OVERLAP_TOK == 300

IsSpaceTok(t) == t = 0

\* the tokens of a text of n words separated by whitespace, with or without
\* leading and trailing whitespace
TextToks(n, lead, trail) ==
    IF n = 0
    THEN IF lead THEN <<0>> ELSE <<>>
    ELSE (IF lead THEN <<0>> ELSE <<>>)
         \o [p \in 1..(2 * n - 1) |-> IF p % 2 = 1 THEN (p + 1) \div 2 ELSE 0]
         \o (IF trail THEN <<0>> ELSE <<>>)

Texts == {TextToks(n, lead, trail) : n \in 0..MaxWords, lead \in BOOLEAN, trail \in BOOLEAN}

\* words = [i for i, t in enumerate(toks) if not t.isspace()], as positions 1..
WordPositions(toks) ==
    SelectSeq([p \in 1..Len(toks) |-> p], LAMBDA p : ~IsSpaceTok(toks[p]))

\* str.strip on a token list
RECURSIVE StripToks(_)
StripToks(s) ==
    IF s = <<>> THEN s
    ELSE IF IsSpaceTok(s[1]) THEN StripToks(Tail(s))
    ELSE IF IsSpaceTok(s[Len(s)]) THEN StripToks(SubSeq(s, 1, Len(s) - 1))
    ELSE s

\* token_count: len(re.findall(r'\S+', text))
token_count(toks) == Len(WordPositions(toks))

\* step = max(1, win_tokens - overlap_tokens)
WindowStepSize(win, overlap) == Max(1, win - overlap)

\* a window that always holds one word: what the loop would be with j = i + 1
WindowEndOne(i, win, n) == Min(i + 1, n)

\* j = min(i + win_tokens, len(words))
WindowEnd(i, win, n) == Min(i + win, n)

\* the frame on entry to the loop; a text without words returns at once
WindowsFrame(toks, win, overlap) ==
    LET words == WordPositions(toks)
    IN  [called |-> "yes", toks |-> toks, words |-> words, win |-> win,
         overlap |-> overlap, i |-> 0,
         out |-> IF words = <<>> /\ StripToks(toks) # <<>> THEN <<StripToks(toks)>> ELSE <<>>,
         pc |-> IF words = <<>> THEN "done" ELSE "loop"]

\* one iteration of `while i < len(words)`
WindowIter(f) ==
    IF f.i >= Len(f.words)
    THEN [f EXCEPT !.pc = "done"]
    ELSE LET j == WindowEnd(f.i, f.win, Len(f.words))
             chunk == StripToks(SubSeq(f.toks, f.words[f.i + 1], f.words[j]))
             out == IF chunk # <<>> THEN Append(f.out, chunk) ELSE f.out
         IN  IF j >= Len(f.words)
             THEN [f EXCEPT !.out = out, !.pc = "done"]
             ELSE [f EXCEPT !.out = out, !.i = f.i + WindowStepSize(f.win, f.overlap)]

RECURSIVE RunWindows(_)
RunWindows(f) == IF f.pc = "done" THEN f.out ELSE RunWindows(WindowIter(f))

sliding_windows_by_tokens(toks, win, overlap) == RunWindows(WindowsFrame(toks, win, overlap))

InLoop == sw.called = "yes" /\ sw.pc = "loop"
WindowsDone == sw.called = "yes" /\ sw.pc = "done"

\* the chunking pipeline is a process of its own: no corpus is loaded in it
InitWindows ==
    /\ chunks_cache = <<>>
    /\ bm25_docs = 0
    /\ Idle

CallWindows ==
    /\ sw.called = "no"
    /\ \E toks \in Texts, win \in 1..MaxWin, overlap \in 0..MaxWin :
          sw' = WindowsFrame(toks, win, overlap)
    /\ UNCHANGED <<engineVars, pc, dedupeVars, appVars, startVars, ret, items, fmt, qs>>

WindowStep ==
    /\ InLoop
    /\ sw' = WindowIter(sw)
    /\ UNCHANGED <<engineVars, pc, dedupeVars, appVars, startVars, ret, items, fmt, qs>>

ReturnWindows ==
    /\ WindowsDone
    /\ sw' = [called |-> "no"]
    /\ UNCHANGED <<engineVars, pc, dedupeVars, appVars, startVars, ret, items, fmt, qs>>

NextWindows == CallWindows \/ WindowStep \/ ReturnWindows

SpecWindows == InitWindows /\ [][NextWindows]_vars

\* the interpreter keeps running the loop it is in
FairWindows == SpecWindows /\ WF_vars(WindowStep)

\* the words of a window, as their numbers in the text
WordsOf(chunk) == SelectSeq(chunk, LAMBDA t : t # 0)

\* the words of a window are a run first, first + 1, ... of the text
IsRun(ws) == ws # <<>> /\ \A m \in 1..Len(ws) : ws[m] = ws[1] + m - 1

WindowsCover ==
    LET n == Len(sw.words)
        outw == [k \in 1..Len(sw.out) |-> WordsOf(sw.out[k])]
    IN  /\ n = 0 => sw.out = <<>>
        /\ n > 0 => Len(sw.out) >= 1 /\ outw[1][1] = 1
        /\ \A k \in 1..Len(outw) : IsRun(outw[k]) /\ Len(outw[k]) <= sw.win
        /\ \A k \in 1..(Len(outw) - 1) :
              /\ outw[k + 1][1] = outw[k][1] + (IF sw.win - sw.overlap >= 1
                                                THEN sw.win - sw.overlap ELSE 1)
              /\ outw[k + 1][Len(outw[k + 1])] >= outw[k][Len(outw[k])]
        /\ UNION {Range(outw[k]) : k \in 1..Len(outw)} = 1..n

\* C26: sliding_windows_by_tokens terminates for every text, every
\* win_tokens >= 1 and every overlap_tokens >= 0 (overlap_tokens >= win_tokens
\* included), and the windows it returns cover every word of the text in
\* order, each holding at most win_tokens words, consecutive windows starting
\* max(1, win_tokens - overlap_tokens) words apart.
C26_WindowsTerminateAndCover ==
    /\ InLoop ~> WindowsDone
    /\ [](WindowsDone => WindowsCover)

\* C26 witness: a call with overlap_tokens >= win_tokens returned several
\* overlapping windows of a text with surrounding whitespace
C26_Witness ==
    /\ WindowsDone
    /\ sw.overlap >= sw.win
    /\ sw.win >= 2
    /\ Len(sw.out) >= 3
    /\ Len(sw.toks) > 2 * Len(sw.words)

-----------------------------------------------------------------------------
(* clean_and_split.py: emit_leaf and the leaves process_one emits for one
   document.  None is modelled by 0 for a clause or bullet number and by ""
   for a point letter; a formatted string is the list of its parts. *)

MaxLeaves == 2      \* leaves of a document

LAW == "Luat so 36/2024/QH15"
STEM == "luatso-36-2024-QH15"

\* the leaves of an article: its preamble, a clause, a point, a bullet of a point
Leaves ==
    {l \in [article_no : {1}, clause_no : 0..2, point : {"", "a"}, bullet_idx : {0, 1}] :
        l.bullet_idx # 0 => l.point # ""}

\* the enriched text of a leaf: short, at the limit, one token over the limit
EnrichedTexts == {TextToks(n, FALSE, FALSE) : n \in {1, MAX_TOKENS_LEAF, MAX_TOKENS_LEAF + 1}}

citation_of(law, article_no, clause_no, point_letter, bullet_idx) ==
    (IF bullet_idx # 0 THEN <<"gach", NumStr(bullet_idx)>> ELSE <<>>)
    \o (IF point_letter # "" THEN <<"diem", point_letter>> ELSE <<>>)
    \o (IF clause_no # 0 THEN <<"khoan", NumStr(clause_no)>> ELSE <<>>)
    \o <<"Dieu", NumStr(article_no), law>>

\* base_id, lines 238-244
BaseId(l) ==
    <<STEM, "_D", NumStr(l.article_no)>>
    \o (IF l.clause_no # 0 THEN <<"_K", NumStr(l.clause_no)>> ELSE <<>>)
    \o (IF l.point # "" THEN <<"_", l.point>> ELSE <<>>)
    \o (IF l.bullet_idx # 0 THEN <<"_b", NumStr(l.bullet_idx)>> ELSE <<>>)

\* the record add_leaf_record appends
LeafRecord(l, id, enriched) ==
    [id |-> id,
     granularity |-> IF \E p \in 1..Len(id) : id[p] = "_w" THEN "leaf_window" ELSE "leaf",
     law |-> LAW,
     article_no |-> l.article_no,
     clause_no |-> l.clause_no,
     point |-> l.point,
     bullet_idx |-> l.bullet_idx,
     display_citation |-> citation_of(LAW, l.article_no, l.clause_no, l.point, l.bullet_idx),
     enriched_text |-> StripToks(enriched)]

emit_leaf(its, l, enriched) ==
    IF token_count(enriched) > MAX_TOKENS_LEAF
    THEN LET ws == sliding_windows_by_tokens(enriched, WIN_TOK, OVERLAP_TOK)
         IN  its \o [i \in 1..Len(ws) |-> LeafRecord(l, BaseId(l) \o <<"_w", NumStr(i)>>, ws[i])]
    ELSE Append(its, LeafRecord(l, BaseId(l), enriched))

\* document order of the leaves
LeafRank(l) == (l.clause_no * 2 + (IF l.point = "" THEN 0 ELSE 1)) * 2 + l.bullet_idx

\* a clause with points, or a point with bullets, is not a leaf itself
Nested(a, b) ==
    /\ a.article_no = b.article_no
    /\ a.clause_no = b.clause_no
    /\ \/ a.point = "" /\ b.point # ""
       \/ a.point = b.point /\ a.bullet_idx = 0 /\ b.bullet_idx # 0

LeafOf(r) == [article_no |-> r.article_no, clause_no |-> r.clause_no,
              point |-> r.point, bullet_idx |-> r.bullet_idx]

EmittedLeaves == {LeafOf(items[i]) : i \in 1..Len(items)}

InitChunk ==
    /\ chunks_cache = <<>>
    /\ bm25_docs = 0
    /\ Idle

\* process_one reaches the next leaf of the document and emits it
EmitLeaf ==
    /\ Cardinality(EmittedLeaves) < MaxLeaves
    /\ \E l \in Leaves, enriched \in EnrichedTexts :
          /\ \A e \in EmittedLeaves :
                LeafRank(e) < LeafRank(l) /\ ~Nested(e, l) /\ ~Nested(l, e)
          /\ items' = emit_leaf(items, l, enriched)
    /\ UNCHANGED <<engineVars, pc, dedupeVars, appVars, startVars, ret, sw, fmt, qs>>

\* process_one writes the items of the document and starts the next document
WriteItems ==
    /\ items # <<>>
    /\ items' = <<>>
    /\ UNCHANGED <<engineVars, pc, dedupeVars, appVars, startVars, ret, sw, fmt, qs>>

NextChunk == EmitLeaf \/ WriteItems

SpecChunk == InitChunk /\ [][NextChunk]_vars

\* C22: within one corpus snapshot produced by the chunking pipeline no two
\* emitted leaf records carry the same display_citation, the records emitted
\* for an over-long leaf that is split into windows included.
C22_CitationUniquePerFragment ==
    \A a, b \in 1..Len(items) :
        a # b => items[a].display_citation # items[b].display_citation

-----------------------------------------------------------------------------
(* retriever_custom.py, lines 255-320: the formatting of the top results *)

MaxResults == 2     \* reranked candidates handed to the formatting

\* (clause_no, clause_head, point) of the leaves the chunking emits: an
\* article preamble, a clause without and with a head, a point of a clause
\* with and without a head, a point outside any clause
LeafShapes ==
    {<< <<>>, <<>>, <<>> >>, << <<"1">>, <<>>, <<>> >>, << <<"1">>, <<"head">>, <<>> >>,
     << <<"1">>, <<"head">>, <<"a">> >>, << <<"1">>, <<>>, <<"a">> >>,
     << <<>>, <<>>, <<"a">> >>}

\* (chapter, section) of an article: outside any chapter, in a chapter (stored
\* with trailing whitespace), in a section of a chapter
Headings ==
    {<< <<>>, <<>> >>, << <<"Chuong I", " ">>, <<>> >>, << <<"Chuong I", " ">>, <<"Muc 1">> >>}

\* stored fragments: law, article number, text and citation always there
FormatFragments ==
    {[law |-> <<"Luat">>, chapter |-> hd[1], section |-> hd[2], article_no |-> <<"15">>,
      article_title |-> ti, clause_no |-> sh[1], clause_head |-> sh[2], point |-> sh[3],
      text |-> <<"body">>, display_citation |-> <<"cit">> \o sh[3] \o sh[1]] :
        hd \in Headings, ti \in {<<>>, <<"Ten dieu">>}, sh \in LeafShapes}

TopResults == UNION {[1..n -> FormatFragments] : n \in 0..MaxResults}

InitFormat ==
    /\ chunks_cache \in {c \in Corpora : Len(c) = 1}
    /\ bm25_docs = 1
    /\ Idle

\* lines 255-320 of retrieve, on the list rerank returned
Format ==
    /\ fmt.called = "no"
    /\ \E top \in TopResults :
          LET out == FormatProps(top)
          IN  fmt' = [called |-> "yes", top_results |-> top,
                      context |-> out.context, sources |-> out.sources]
    /\ UNCHANGED <<engineVars, pc, dedupeVars, appVars, startVars, ret, sw, items, qs>>

ReturnFormat ==
    /\ fmt.called = "yes"
    /\ fmt' = [called |-> "no"]
    /\ UNCHANGED <<engineVars, pc, dedupeVars, appVars, startVars, ret, sw, items, qs>>

NextFormat == Format \/ ReturnFormat

SpecFormat == InitFormat /\ [][NextFormat]_vars

\* the lines of a text, an empty line where two line breaks meet
RECURSIVE SplitLines(_, _)
SplitLines(s, cur) ==
    IF s = <<>> THEN <<cur>>
    ELSE IF Head(s) = "\n" THEN <<cur>> \o SplitLines(Tail(s), <<>>)
    ELSE SplitLines(Tail(s), Append(cur, Head(s)))

\* the blocks of a text: its runs of lines between blank lines
RECURSIVE GroupBlocks(_, _)
GroupBlocks(lines, cur) ==
    IF lines = <<>> THEN (IF cur = <<>> THEN <<>> ELSE <<cur>>)
    ELSE IF Head(lines) = <<>> THEN <<cur>> \o GroupBlocks(Tail(lines), <<>>)
    ELSE GroupBlocks(Tail(lines), Append(cur, Head(lines)))

BlocksOf(context) == IF context = <<>> THEN <<>> ELSE GroupBlocks(SplitLines(context, <<>>), <<>>)

\* what a line of the block of fragment p is: 1 reference, 2 law, 3 chapter,
\* 4 section, 5 article, 6 clause, 7 point, 8 body; 0 anything else
KindOf(line, p) ==
    CASE line = <<"[Can cu: ">> \o p.display_citation \o <<"]">> -> 1
      [] line = p.law -> 2
      [] line = strip(p.chapter) -> 3
      [] line = p.section -> 4
      [] line[1] = "Dieu" /\ SubSeq(line, 3, 2 + Len(p.article_no)) = p.article_no -> 5
      [] line[1] = "Khoan" /\ SubSeq(line, 3, 2 + Len(p.clause_no)) = p.clause_no -> 6
      [] line = <<"Diem", " ">> \o p.point \o <<")">> -> 7
      [] line = p.text -> 8
      [] OTHER -> 0

\* the kinds of lines the block of fragment p is to hold, in order
ExpectedKinds(p) ==
    SelectSeq(<<1, 2, 3, 4, 5, 6, 7, 8>>,
              LAMBDA kd : CASE kd = 3 -> strip(p.chapter) # <<>>
                            [] kd = 4 -> p.section # <<>>
                            [] kd = 6 -> p.clause_no # <<>>
                            [] kd = 7 -> p.point # <<>>
                            [] OTHER -> TRUE)

\* C23: retrieve renders the reranked candidates in rank order, one block per
\* candidate joined by a blank line, each block ordered as: reference line
\* with the citation, then law, chapter, section and article lines only when
\* present, then for a point-level leaf the clause line followed by the point
\* line, or for a clause-level leaf the clause line only, then the body text;
\* the citations are collected in the same rank order as the blocks.
C23_BlocksInRankOrder ==
    fmt.called = "yes" =>
        LET blocks == BlocksOf(fmt.context)
            top == fmt.top_results
        IN  /\ Len(blocks) = Len(top)
            /\ Len(fmt.sources) = Len(top)
            /\ \A i \in 1..Len(top) :
                  /\ fmt.sources[i] = top[i].display_citation
                  /\ [m \in 1..Len(blocks[i]) |-> KindOf(blocks[i][m], top[i])]
                        = ExpectedKinds(top[i])

\* C23 witness: two candidates were rendered, a point-level leaf with chapter,
\* section and article title ahead of a clause-level leaf without them
C23_Witness ==
    /\ fmt.called = "yes"
    /\ Len(fmt.top_results) = 2
    /\ fmt.top_results[1].point # <<>>
    /\ fmt.top_results[1].clause_no # <<>>
    /\ fmt.top_results[1].chapter # <<>>
    /\ fmt.top_results[1].section # <<>>
    /\ fmt.top_results[2].point = <<>>
    /\ fmt.top_results[2].clause_no # <<>>
    /\ fmt.top_results[2].chapter = <<>>
    /\ fmt.sources[1] # fmt.sources[2]
    /\ Len(BlocksOf(fmt.context)) = 2

-----------------------------------------------------------------------------
(* The chat page: the query flag and the message history *)

LastRole == IF messages = <<>> THEN "none" ELSE messages[Len(messages)].role

\* C24: once a user question has been accepted the app appends one assistant
\* message for it and resets running_rag to False whether retrieve and
\* generate_answer return or raise; between two runs of the script the app is
\* never left with running_rag True and no unanswered user message, the state
\* in which all further input is ignored.
C24_NeverStuck ==
    (script = "idle" /\ running_rag) => LastRole = "user"

Alternates ==
    \A i \in 1..Len(messages) :
        messages[i].role = IF i % 2 = 1 THEN "user" ELSE "assistant"

\* C25: after any sequence of inputs, sample-question clicks, clear presses
\* and reruns the message history alternates roles starting with a user
\* message; a user message is appended only while running_rag is False, input
\* arriving while running_rag is True is dropped, and a user message gets no
\* second assistant reply.
C25_HistoryAlternates ==
    /\ []Alternates
    /\ [][(messages' # messages /\ messages' # <<>>) =>
            /\ Len(messages') = Len(messages) + 1
            /\ SubSeq(messages', 1, Len(messages)) = messages
            /\ \/ /\ messages'[Len(messages')].role = "user"
                  /\ ~running_rag
                  /\ running_rag'
               \/ /\ messages'[Len(messages')].role = "assistant"
                  /\ running_rag
                  /\ LastRole = "user"]_vars

\* C25 witness: a second question was answered while the user touched the
\* page, and the input that came with it left the history as it was
C25_Witness ==
    /\ script = "idle"
    /\ running_rag
    /\ Len(messages) = 4
    /\ LastRole = "assistant"

-----------------------------------------------------------------------------
(* retriever_custom.py, lines 168-235: two queries running in the same
   process.  A candidate is a dictionary retrieve_hybrid creates for the
   query; its "props" is the object of the query's own dense response
   (line 197) or, for a lexical-only hit, the dictionary of chunks_cache
   itself (line 209): idx names the fragment, shared tells which. *)

QueryIds == {1, 2}

\* the score written into the dictionary of the corpus the candidate points to
WriteRerankScoreShared(cache, cands, i, s) ==
    [cache |-> IF cands[i].shared
               THEN [cache EXCEPT ![cands[i].idx] =
                        [f \in DOMAIN @ \cup {"rerank_score"} |->
                            IF f = "rerank_score" THEN s ELSE @[f]]]
               ELSE cache,
     cands |-> [cands EXCEPT ![i].rerank_score = s]]

\* line 232: c["rerank_score"] = float(scores[i]), c the candidate dictionary
WriteRerankScore(cache, cands, i, s) ==
    [cache |-> cache,
     cands |-> [cands EXCEPT ![i].rerank_score = s]]

\* what retrieve_hybrid returns for a query: the fragments of the corpus in
\* index order or reversed, all from the dense response or all lexical-only,
\* sorted by a descending fusion score
ConcurrentCandidates ==
    LET n == Len(chunks_cache)
    IN  {[i \in 1..n |-> [idx |-> IF rev THEN n + 1 - i ELSE i, shared |-> sh,
                          score |-> n - i, rerank_score |-> 0]] :
            rev \in BOOLEAN, sh \in BOOLEAN}

\* the candidates as rerank sees them: fragment and fusion score
CandidateView(cands) ==
    [i \in 1..Len(cands) |-> [props |-> chunks_cache[cands[i].idx], score |-> cands[i].score]]

\* the result as the caller sees it
ResultView(out) ==
    [i \in 1..Len(out) |-> [props |-> chunks_cache[out[i].idx], score |-> out[i].score,
                            rerank_score |-> out[i].rerank_score]]

InitConcurrent ==
    /\ chunks_cache \in {c \in Corpora : Len(c) = MaxDocs}
    /\ bm25_docs = Len(chunks_cache)
    /\ Idle

\* lines 250-253 and 219-229: the query has its candidates and the scores
\* reranker.predict gave for them
QStart(q) ==
    /\ q \notin DOMAIN qs
    /\ \E cands \in ConcurrentCandidates, fk \in {1, Len(chunks_cache)} :
          \E scores \in [1..Len(cands) -> {0, 2}] :
             qs' = (q :> [pc |-> "scoring", args |-> cands, cands |-> cands,
                          scores |-> scores, i |-> 1, final_k |-> fk, out |-> <<>>]) @@ qs
    /\ UNCHANGED <<engineVars, pc, dedupeVars, appVars, startVars, ret, sw, items, fmt>>

\* lines 231-232: one iteration of the loop that stores the scores
QWriteScore(q) ==
    /\ q \in DOMAIN qs
    /\ qs[q].pc = "scoring"
    /\ qs[q].i <= Len(qs[q].cands)
    /\ LET w == WriteRerankScore(chunks_cache, qs[q].cands, qs[q].i, qs[q].scores[qs[q].i])
       IN  /\ chunks_cache' = w.cache
           /\ qs' = [qs EXCEPT ![q].cands = w.cands, ![q].i = @ + 1]
    /\ UNCHANGED <<bm25_docs, alpha, pool_k, h, rr, query, alpha_out, norm_in, norm_out,
                   pc, dedupeVars, appVars, startVars, ret, sw, items, fmt>>

\* lines 234-235: the sort of the query's list and the cut to final_k
QSort(q) ==
    /\ q \in DOMAIN qs
    /\ qs[q].pc = "scoring"
    /\ qs[q].i > Len(qs[q].cands)
    /\ qs' = [qs EXCEPT ![q].out = Take(SortReranked(qs[q].cands), qs[q].final_k),
                        ![q].pc = "done"]
    /\ UNCHANGED <<engineVars, pc, dedupeVars, appVars, startVars, ret, sw, items, fmt>>

\* the query is over
QReturn(q) ==
    /\ q \in DOMAIN qs
    /\ qs[q].pc = "done"
    /\ qs' = [p \in DOMAIN qs \ {q} |-> qs[p]]
    /\ UNCHANGED <<engineVars, pc, dedupeVars, appVars, startVars, ret, sw, items, fmt>>

NextConcurrent ==
    \/ \E q \in QueryIds : QStart(q)
    \/ \E q \in QueryIds : QWriteScore(q)
    \/ \E q \in QueryIds : QSort(q)
    \/ \E q \in QueryIds : QReturn(q)

SpecConcurrent == InitConcurrent /\ [][NextConcurrent]_vars

\* every finished query holds what rerank gives for its own candidates and scores
SequentialResults ==
    \A q \in DOMAIN qs :
        qs[q].pc = "done" =>
            ResultView(qs[q].out)
               = rerank(CandidateView(qs[q].args), qs[q].scores, qs[q].final_k).out

\* C21: queries share no mutable state: a query never modifies chunks_cache or
\* the lexical index, and nothing a query writes (scores, rerank_score,
\* ordering) is seen by another query, so two interleaved queries return what
\* they return when run one after the other.
C21_QueriesIsolated ==
    /\ [][chunks_cache' = chunks_cache /\ bm25_docs' = bm25_docs]_vars
    /\ []SequentialResults

\* C21 witness: a query finished while the other one was half-way through
\* storing different scores for the same lexical-only fragments, in the other
\* order
C21_Witness ==
    /\ DOMAIN qs = {1, 2}
    /\ qs[1].pc = "done"
    /\ qs[2].pc = "scoring"
    /\ qs[2].i = 2
    /\ qs[1].args[1].shared
    /\ qs[2].args[1].shared
    /\ qs[1].args[1].idx # qs[2].args[1].idx
    /\ qs[1].scores # qs[2].scores
    /\ qs[1].out # <<>>

====
